---- MODULE Spec2Model ----
(***************************************************************************)
(* JSON Web Signature envelopes of vercre/infosec (src/jose/jws.rs):       *)
(* encode / Jws::new, Jws::from_str, Jws::verify and decode, over real     *)
(* byte strings.  A string is a sequence of character codes (ASCII), a     *)
(* byte string a sequence of 0..255.                                       *)
(***************************************************************************)
EXTENDS Integers, Sequences, FiniteSets, TLC

(***************************************************************************)
(* Bounds of the model.                                                    *)
(***************************************************************************)
\* longest `signatures` list of an envelope handed to Jws::verify
MaxSigs == 3

(***************************************************************************)
(* Characters.                                                             *)
(***************************************************************************)
DOT == 46
QUOTE == 34
LBRACE == 123
RBRACE == 125
COLON == 58
COMMA == 44
SPACE == 32

RECURSIVE Pow2(_)
Pow2(n) == IF n = 0 THEN 1 ELSE 2 * Pow2(n - 1)

\* the character c with bit b (0 = least significant) inverted
FlipBit(c, b) == IF (c \div Pow2(b)) % 2 = 1 THEN c - Pow2(b) ELSE c + Pow2(b)

(***************************************************************************)
(* base64ct::Base64UrlUnpadded.                                            *)
(***************************************************************************)
\* the character of a 6-bit value in the URL-safe alphabet A-Z a-z 0-9 - _
B64Char(v) ==
    IF v < 26 THEN 65 + v
    ELSE IF v < 52 THEN 97 + (v - 26)
    ELSE IF v < 62 THEN 48 + (v - 52)
    ELSE IF v = 62 THEN 45
    ELSE 95

\* the 6-bit value of a character, -1 when it is outside the alphabet
B64Val(c) ==
    IF c >= 65 /\ c <= 90 THEN c - 65
    ELSE IF c >= 97 /\ c <= 122 THEN c - 97 + 26
    ELSE IF c >= 48 /\ c <= 57 THEN c - 48 + 52
    ELSE IF c = 45 THEN 62
    ELSE IF c = 95 THEN 63
    ELSE -1

\* byte i of a byte string, 0 past its end
ByteAt(bytes, i) == IF i <= Len(bytes) THEN bytes[i] ELSE 0

\* Base64UrlUnpadded::encode_string: three bytes make four characters, a last
\* group of one or two bytes makes two or three
B64Encode(bytes) ==
    LET n == (4 * Len(bytes) + 2) \div 3 IN
    SubSeq([j \in 1..n |->
        LET g == (j - 1) \div 4
            b0 == ByteAt(bytes, 3 * g + 1)
            b1 == ByteAt(bytes, 3 * g + 2)
            b2 == ByteAt(bytes, 3 * g + 3)
            r == (j - 1) % 4
        IN B64Char(IF r = 0 THEN b0 \div 4
                   ELSE IF r = 1 THEN (b0 % 4) * 16 + b1 \div 16
                   ELSE IF r = 2 THEN (b1 % 16) * 4 + b2 \div 64
                   ELSE b2 % 64)], 1, n)

\* the bytes of a string of alphabet characters, trailing bits dropped
B64Bytes(s) ==
    LET n == (3 * Len(s)) \div 4 IN
    SubSeq([j \in 1..n |->
        LET g == (j - 1) \div 3
            v(k) == IF 4 * g + k + 1 <= Len(s) THEN B64Val(s[4 * g + k + 1]) ELSE 0
            r == (j - 1) % 3
        IN IF r = 0 THEN v(0) * 4 + v(1) \div 16
           ELSE IF r = 1 THEN (v(1) % 16) * 16 + v(2) \div 4
           ELSE (v(2) % 4) * 64 + v(3)], 1, n)

\* a mutant of B64Decode: a lenient decoder, which reads a character outside
\* the alphabet as zero bits and accepts any length
B64DecodeLenient(s) ==
    [ok |-> TRUE,
     bytes |-> B64Bytes(SubSeq([i \in 1..Len(s) |-> IF B64Val(s[i]) < 0 THEN 65 ELSE s[i]],
                               1, Len(s)))]

\* Base64UrlUnpadded::decode_vec: fails on a character outside the alphabet,
\* on an impossible length and on a last block that is not the canonical
\* encoding of its bytes (non-zero trailing bits)
\* the strict engine accepts only the canonical encoding of the bytes
B64Canonical(s, bytes) ==
    IF B64Encode(bytes) = s
    THEN [ok |-> TRUE, bytes |-> bytes]
    ELSE [ok |-> FALSE, bytes |-> <<>>]

B64Decode(s) ==
    IF \/ \E i \in 1..Len(s) : B64Val(s[i]) < 0
       \/ Len(s) % 4 = 1
    THEN [ok |-> FALSE, bytes |-> <<>>]
    ELSE B64Canonical(s, B64Bytes(s))

(***************************************************************************)
(* str::split('.')                                                         *)
(***************************************************************************)
\* the segments of s between its dots, in order: one more than it has dots
SplitDots(s) ==
    LET dots == {i \in 1..Len(s) : s[i] = DOT}
        \* the position of the k-th dot; 0 and Len(s) + 1 bracket the string
        dot(k) == IF k = 0 THEN 0
                  ELSE IF k > Cardinality(dots) THEN Len(s) + 1
                  ELSE CHOOSE i \in dots : Cardinality({j \in dots : j < i}) = k - 1
        n == Cardinality(dots) + 1
    IN SubSeq([k \in 1..n |-> SubSeq(s, dot(k - 1) + 1, dot(k) - 1)], 1, n)

(***************************************************************************)
(* serde_json, for the JSON texts the envelopes carry: objects whose       *)
(* members are strings or unsigned numbers, strings without escape         *)
(* sequences, any amount of whitespace between tokens.                     *)
(***************************************************************************)
IsWs(c) == c \in {32, 9, 10, 13}
IsDigit(c) == c >= 48 /\ c <= 57
IsPunct(c) == c \in {LBRACE, RBRACE, COLON, COMMA}

Tok(t, c, s, n) == [t |-> t, c |-> c, s |-> s, n |-> n]
NoLex == [ok |-> FALSE, toks |-> <<>>]

\* index of the closing quote of the string that starts after position i,
\* 0 when the text ends first or the string holds a control character or a
\* backslash
StringEnd(b, i) ==
    LET stops == {j \in i..Len(b) : b[j] = QUOTE \/ b[j] < 32 \/ b[j] = 92} IN
    IF stops = {} THEN 0
    ELSE LET j == CHOOSE k \in stops : \A m \in stops : k <= m IN
         IF b[j] = QUOTE THEN j ELSE 0

RECURSIVE DigitsEnd(_, _)
DigitsEnd(b, j) == IF j <= Len(b) /\ IsDigit(b[j]) THEN DigitsEnd(b, j + 1) ELSE j - 1

RECURSIVE DigitsValue(_, _, _)
DigitsValue(b, i, j) ==
    IF i > j THEN 0 ELSE DigitsValue(b, i, j - 1) * 10 + (b[j] - 48)

RECURSIVE Lex(_, _, _)
Lex(b, i, acc) ==
    IF i > Len(b) THEN [ok |-> TRUE, toks |-> acc]
    ELSE IF IsWs(b[i]) THEN Lex(b, i + 1, acc)
    ELSE IF IsPunct(b[i]) THEN Lex(b, i + 1, Append(acc, Tok("p", b[i], <<>>, 0)))
    ELSE IF b[i] = QUOTE THEN
        LET j == StringEnd(b, i + 1) IN
        IF j = 0 THEN NoLex
        ELSE Lex(b, j + 1, Append(acc, Tok("s", 0, SubSeq(b, i + 1, j - 1), 0)))
    ELSE IF IsDigit(b[i]) THEN
        LET j == DigitsEnd(b, i) IN
        IF b[i] = 48 /\ j > i THEN NoLex
        ELSE Lex(b, j + 1, Append(acc, Tok("n", 0, <<>>, DigitsValue(b, i, j))))
    ELSE NoLex

RECURSIVE DigitsOf(_)
DigitsOf(n) == IF n < 10 THEN <<48 + n>> ELSE Append(DigitsOf(n \div 10), 48 + (n % 10))

\* serde_json::to_vec of a string without characters that need escaping
JsonString(s) == <<QUOTE>> \o s \o <<QUOTE>>

(***************************************************************************)
(* Payload values: the caller's type T is a JSON string or an unsigned     *)
(* number.                                                                 *)
(***************************************************************************)
StrValue(s) == [kind |-> "str", s |-> s, n |-> 0]
NumValue(n) == [kind |-> "num", s |-> <<>>, n |-> n]

\* serde_json::to_vec(payload)
PayloadToJson(p) == IF p.kind = "str" THEN JsonString(p.s) ELSE DigitsOf(p.n)

\* serde_json::from_slice::<T>(claims)
PayloadOfTokens(lx) ==
    IF ~lx.ok \/ Len(lx.toks) # 1 \/ lx.toks[1].t = "p"
    THEN [ok |-> FALSE, value |-> NumValue(0)]
    ELSE [ok |-> TRUE,
          value |-> IF lx.toks[1].t = "s" THEN StrValue(lx.toks[1].s)
                    ELSE NumValue(lx.toks[1].n)]
PayloadFromJson(b) == PayloadOfTokens(Lex(b, 1, <<>>))

(***************************************************************************)
(* Algorithm, Type, Curve, Key, Protected.                                 *)
(***************************************************************************)
Algorithms == {"EdDSA", "ES256K"}
Types == {"Jwt", "Openid4VciProofJwt", "OauthAuthzReqJwt"}
Curves == {"Ed25519", "Es256K"}

\* the serde name of an Algorithm
AlgName(a) ==
    IF a = "EdDSA" THEN <<69, 100, 68, 83, 65>>   \* EdDSA
    ELSE <<69, 83, 50, 53, 54, 75>>   \* ES256K

\* the serde name of a Type (#[serde(rename = ...)])
TypeName(t) ==
    IF t = "Jwt" THEN <<106, 119, 116>>   \* jwt
    ELSE IF t = "Openid4VciProofJwt" THEN
        <<111, 112, 101, 110, 105, 100, 52, 118, 99, 105, 45, 112, 114, 111, 111, 102, 43, 106, 119, 116>>   \* openid4vci-proof+jwt
    ELSE
        <<111, 97, 117, 116, 104, 45, 97, 117, 116, 104, 122, 45, 114, 101, 113, 43, 106, 119, 116>>   \* oauth-authz-req+jwt

N_alg == <<97, 108, 103>>   \* alg
N_typ == <<116, 121, 112>>   \* typ
N_kid == <<107, 105, 100>>   \* kid
N_jwk == <<106, 119, 107>>   \* jwk
N_x5c == <<120, 53, 99>>   \* x5c
N_trust_chain == <<116, 114, 117, 115, 116, 95, 99, 104, 97, 105, 110>>   \* trust_chain


None == [some |-> FALSE, v |-> <<>>]
Some(v) == [some |-> TRUE, v |-> v]

\* PublicKeyJwk {crv, x, y}: x and y stand for the base64url coordinates, 0
\* for a coordinate that is absent (y) or does not decode to a point
PublicKeyJwk(crv, x, y) == [crv |-> crv, x |-> x, y |-> y]
NoJwk == PublicKeyJwk("Ed25519", 0, 0)

\* enum Key
KeyId(kid) == [tag |-> "KeyId", kid |-> kid, jwk |-> NoJwk]
Jwk(jwk) == [tag |-> "Jwk", kid |-> <<>>, jwk |-> jwk]

\* impl Default for Key
KeyDefault == KeyId(<<>>)

\* struct Protected
Protected(alg, typ, key, x5c, trust_chain) ==
    [alg |-> alg, typ |-> typ, key |-> key, x5c |-> x5c, trust_chain |-> trust_chain]

\* Protected::kid
ProtectedKid(h) == IF h.key.tag = "KeyId" THEN Some(h.key.kid) ELSE None

JsonMember(name, value) == JsonString(name) \o <<COLON>> \o JsonString(value)

\* serde_json::to_vec(&Protected) of a header whose key is a KeyId: the
\* members in declaration order, the flattened key as "kid", absent options
\* skipped
ProtectedToJson(h) ==
    <<LBRACE>>
    \o JsonMember(N_alg, AlgName(h.alg)) \o <<COMMA>>
    \o JsonMember(N_typ, TypeName(h.typ)) \o <<COMMA>>
    \o JsonMember(N_kid, h.key.kid)
    \o (IF h.x5c.some THEN <<COMMA>> \o JsonMember(N_x5c, h.x5c.v) ELSE <<>>)
    \o (IF h.trust_chain.some
        THEN <<COMMA>> \o JsonMember(N_trust_chain, h.trust_chain.v) ELSE <<>>)
    \o <<RBRACE>>

\* Base64UrlUnpadded::encode_string(&serde_json::to_vec(&protected)?)
ProtectedToB64(h) == B64Encode(ProtectedToJson(h))

\* the members of a JSON object given as tokens: { s : v (, s : v)* } with v a
\* string or a number
RECURSIVE MembersFrom(_, _, _)
MembersFrom(toks, i, acc) ==
    IF /\ i + 3 <= Len(toks)
       /\ toks[i].t = "s"
       /\ toks[i + 1] = Tok("p", COLON, <<>>, 0)
       /\ toks[i + 2].t \in {"s", "n"}
    THEN LET acc2 == Append(acc, [name |-> toks[i].s, value |-> toks[i + 2]]) IN
         IF toks[i + 3] = Tok("p", RBRACE, <<>>, 0)
         THEN IF i + 3 = Len(toks) THEN [ok |-> TRUE, members |-> acc2]
              ELSE [ok |-> FALSE, members |-> <<>>]
         ELSE IF toks[i + 3] = Tok("p", COMMA, <<>>, 0)
         THEN MembersFrom(toks, i + 4, acc2)
         ELSE [ok |-> FALSE, members |-> <<>>]
    ELSE [ok |-> FALSE, members |-> <<>>]

ObjectOfTokens(lx) ==
    IF ~lx.ok \/ Len(lx.toks) < 2 \/ lx.toks[1] # Tok("p", LBRACE, <<>>, 0)
    THEN [ok |-> FALSE, members |-> <<>>]
    ELSE IF Len(lx.toks) = 2
    THEN [ok |-> lx.toks[2] = Tok("p", RBRACE, <<>>, 0), members |-> <<>>]
    ELSE MembersFrom(lx.toks, 2, <<>>)
JsonObject(b) == ObjectOfTokens(Lex(b, 1, <<>>))

Named(members, name) == {i \in 1..Len(members) : members[i].name = name}
First(S) == CHOOSE i \in S : \A j \in S : i <= j

AlgOfName(s) == {a \in Algorithms : AlgName(a) = s}
TypeOfName(s) == {t \in Types : TypeName(t) = s}

NoProtected == [ok |-> FALSE, protected |-> Protected("EdDSA", "Jwt", KeyDefault, None, None)]

\* serde_json::from_slice::<Protected>: alg and typ are required and known,
\* the flattened key is the first "kid" member, the options are optional, no
\* named field may repeat, other members are ignored
ProtectedOfObject(obj) ==
    LET m == obj.members
        one(name) == Cardinality(Named(m, name)) = 1
        atMostOne(name) == Cardinality(Named(m, name)) <= 1
        str(name) == m[First(Named(m, name))].value
        opt(name) == IF Named(m, name) = {} THEN None ELSE Some(str(name).s)
    IN
    IF /\ obj.ok
       /\ one(N_alg) /\ str(N_alg).t = "s" /\ AlgOfName(str(N_alg).s) # {}
       /\ one(N_typ) /\ str(N_typ).t = "s" /\ TypeOfName(str(N_typ).s) # {}
       /\ Named(m, N_kid) # {} /\ str(N_kid).t = "s"
       /\ Named(m, N_jwk) = {}
       /\ atMostOne(N_x5c) /\ (Named(m, N_x5c) # {} => str(N_x5c).t = "s")
       /\ atMostOne(N_trust_chain)
       /\ (Named(m, N_trust_chain) # {} => str(N_trust_chain).t = "s")
    THEN [ok |-> TRUE,
          protected |-> Protected(CHOOSE a \in AlgOfName(str(N_alg).s) : TRUE,
                                  CHOOSE t \in TypeOfName(str(N_typ).s) : TRUE,
                                  KeyId(str(N_kid).s), opt(N_x5c), opt(N_trust_chain))]
    ELSE NoProtected
ProtectedFromJson(b) == ProtectedOfObject(JsonObject(b))

(***************************************************************************)
(* Signatures.  A key pair is a number k > 0; the signature of key k over  *)
(* a message is the byte string <<k, scheme>> \o message, so it verifies   *)
(* under exactly that key, scheme and message.  An ECDSA signature has a   *)
(* second, high-S, form.                                                   *)
(***************************************************************************)
SCHEME_EDDSA == 1
SCHEME_ES256K == 2
SCHEME_ES256K_HIGH_S == 3

SchemeOf(alg) == IF alg = "EdDSA" THEN SCHEME_EDDSA ELSE SCHEME_ES256K
CurveOf(alg) == IF alg = "EdDSA" THEN "Ed25519" ELSE "Es256K"

\* what a signer holding key k answers to try_sign(msg)
SignBytes(k, alg, msg) == <<k, SchemeOf(alg)>> \o msg

\* the public key of key pair k for an algorithm
PublicOf(k, alg) ==
    IF alg = "EdDSA" THEN PublicKeyJwk("Ed25519", k, 0) ELSE PublicKeyJwk("Es256K", k, k)

Verified == "Ok"

\* signature.normalize_s().unwrap_or(signature)
NormalizeS(sig) == IF sig[2] = SCHEME_ES256K_HIGH_S THEN [sig EXCEPT ![2] = SCHEME_ES256K] ELSE sig

\* PublicKeyJwk::verify_es256k
verify_es256k(jwk, msg, sig) ==
    IF jwk.y = 0 \/ jwk.x = 0 \/ jwk.x # jwk.y THEN "KeyMaterialInvalid"
    ELSE IF Len(sig) < 2 THEN "FormatError"
    ELSE IF NormalizeS(sig) = <<jwk.x, SCHEME_ES256K>> \o msg THEN Verified
    ELSE "SignatureInvalid"

\* PublicKeyJwk::verify_eddsa
verify_eddsa(jwk, msg, sig) ==
    IF jwk.x = 0 THEN "KeyMaterialInvalid"
    ELSE IF Len(sig) < 2 THEN "FormatError"
    ELSE IF sig = <<jwk.x, SCHEME_EDDSA>> \o msg THEN Verified
    ELSE "SignatureInvalid"

\* a mutant of PublicKeyJwkVerify: every signature is accepted
PublicKeyJwkVerifyAny(jwk, msg, sig) == Verified

\* PublicKeyJwk::verify
PublicKeyJwkVerify(jwk, msg, sig) ==
    IF jwk.crv = "Es256K" THEN verify_es256k(jwk, msg, sig)
    ELSE verify_eddsa(jwk, msg, sig)


(***************************************************************************)
(* The collaborators: signers (trait Signer) and key resolvers (the        *)
(* closure handed to verify and decode).                                   *)
(***************************************************************************)
K1 == <<107, 49>>   \* k1
K2 == <<107, 50>>   \* k2
K3 == <<107, 51>>   \* k3
K9 == <<107, 57>>   \* k9

Signer(key, alg, vm, vm_fails, sign_fails) ==
    [key |-> key, alg |-> alg, vm |-> vm, vm_fails |-> vm_fails, sign_fails |-> sign_fails]

Signers ==
    { Signer(1, "EdDSA", K1, FALSE, FALSE),
      Signer(2, "ES256K", K2, FALSE, FALSE),
      Signer(1, "EdDSA", <<>>, FALSE, FALSE),    \* an empty verification method
      Signer(1, "EdDSA", K1, TRUE, FALSE),       \* verification_method() fails
      Signer(2, "ES256K", K2, FALSE, TRUE) }     \* try_sign() fails

Resolvers == {"good", "anykey", "swapped"}

Found(jwk) == [ok |-> TRUE, jwk |-> jwk]
NotFound == [ok |-> FALSE, jwk |-> NoJwk]

\* resolver(kid): "good" knows k1 (key 1, Ed25519), k2 (key 2, secp256k1) and
\* k3 (a secp256k1 key without y); "anykey" answers key 1 whatever it is
\* asked; "swapped" answers k1 and k2 with each other's key
Resolve(r, kid) ==
    IF r = "good" THEN
        IF kid = K1 THEN Found(PublicOf(1, "EdDSA"))
        ELSE IF kid = K2 THEN Found(PublicOf(2, "ES256K"))
        ELSE IF kid = K3 THEN Found(PublicKeyJwk("Es256K", 3, 0))
        ELSE NotFound
    ELSE IF r = "anykey" THEN Found(PublicOf(1, "EdDSA"))
    ELSE
        IF kid = K1 THEN Found(PublicOf(2, "ES256K"))
        ELSE IF kid = K2 THEN Found(PublicOf(1, "EdDSA"))
        ELSE NotFound

\* the resolver maps the signer's verification method to the signer's key
Matching(r, signer) ==
    Resolve(r, signer.vm) = Found(PublicOf(signer.key, signer.alg))

(***************************************************************************)
(* Inputs.                                                                 *)
(***************************************************************************)
Payloads == {StrValue(<<112>>), StrValue(<<>>), NumValue(7), NumValue(42)}

\* struct Signature
Signature(protected, signature) == [protected |-> protected, signature |-> signature]

\* struct Jws
Jws(payload, signatures) == [payload |-> payload, signatures |-> signatures]

\* a mutant of SigningInput: the payload is left out of what is signed
SigningInputHeaderOnly(header, payload) == header

\* format!("{header}.{payload}"), the bytes that are signed and verified
SigningInput(header, payload) == header \o <<DOT>> \o payload

\* format!("{header}.{payload}.{signature}")
Compact(header, payload, signature) == header \o <<DOT>> \o payload \o <<DOT>> \o signature

\* the payload of the envelopes handed to Jws::verify: "p" as JSON, base64url
EnvPayload == B64Encode(PayloadToJson(StrValue(<<112>>)))

\* an entry whose signature key k made with algorithm alg over the entry's
\* signing input
SignedEntry(h, k, alg) ==
    Signature(h, B64Encode(SignBytes(k, alg, SigningInput(ProtectedToB64(h), EnvPayload))))

Hdr(alg, kid) == Protected(alg, "Jwt", KeyId(kid), None, None)

E_ok1 == SignedEntry(Hdr("EdDSA", K1), 1, "EdDSA")
E_ok2 == SignedEntry(Hdr("ES256K", K2), 2, "ES256K")
\* alg says EdDSA, the key k2 resolves to is secp256k1 and made the signature
E_mismatch == SignedEntry(Hdr("EdDSA", K2), 2, "ES256K")
\* signed by a key that is not k1's
E_badsig == SignedEntry(Hdr("EdDSA", K1), 3, "EdDSA")
\* the signature is not base64url ("!!")
E_undecodable == Signature(Hdr("EdDSA", K1), <<33, 33>>)
\* KeyId(""), the default key
E_emptykid == SignedEntry(Hdr("EdDSA", <<>>), 1, "EdDSA")
\* an embedded key
E_jwk ==
    Signature(Protected("EdDSA", "Jwt", Jwk(PublicOf(1, "EdDSA")), None, None),
              B64Encode(SignBytes(1, "EdDSA", EnvPayload)))
\* an identifier no resolver knows
E_unknown == SignedEntry(Hdr("EdDSA", K9), 1, "EdDSA")
\* an identifier that resolves to a secp256k1 key without y
E_badkey == SignedEntry(Hdr("ES256K", K3), 3, "ES256K")

Entries ==
    {E_ok1, E_ok2, E_mismatch, E_badsig, E_undecodable, E_emptykid, E_jwk, E_unknown, E_badkey}

SeqsUpTo(S, n) == UNION {[1..m -> S] : m \in 0..n}

\* the envelopes handed to Jws::verify (the fields of Jws are public and Jws
\* derives Deserialize: any list of entries, the empty one too)
Envelopes == {Jws(EnvPayload, sigs) : sigs \in SeqsUpTo(Entries, MaxSigs)}

\* a compact token another implementation made: its own header text, signed
\* by key k over the transmitted bytes
ForeignToken(headerJson, payloadJson, k, alg) ==
    LET h == B64Encode(headerJson)
        p == B64Encode(payloadJson)
    IN Compact(h, p, B64Encode(SignBytes(k, alg, SigningInput(h, p))))

HJ_canonical == ProtectedToJson(Hdr("EdDSA", K1))
\* {"typ":"jwt","alg":"EdDSA","kid":"k1"}
HJ_reordered ==
    <<LBRACE>> \o JsonMember(N_typ, TypeName("Jwt")) \o <<COMMA>>
    \o JsonMember(N_alg, AlgName("EdDSA")) \o <<COMMA>>
    \o JsonMember(N_kid, K1) \o <<RBRACE>>
\* { "alg":"EdDSA","typ":"jwt","kid":"k1"}
HJ_spaced ==
    <<LBRACE, SPACE>> \o JsonMember(N_alg, AlgName("EdDSA")) \o <<COMMA>>
    \o JsonMember(N_typ, TypeName("Jwt")) \o <<COMMA>>
    \o JsonMember(N_kid, K1) \o <<RBRACE>>
\* {"alg":"EdDSA","typ":"jwt"}
HJ_nokid ==
    <<LBRACE>> \o JsonMember(N_alg, AlgName("EdDSA")) \o <<COMMA>>
    \o JsonMember(N_typ, TypeName("Jwt")) \o <<RBRACE>>

PJ_p == PayloadToJson(StrValue(<<112>>))

WellSigned ==
    { ForeignToken(HJ_canonical, PJ_p, 1, "EdDSA"),
      ForeignToken(HJ_reordered, PJ_p, 1, "EdDSA"),
      ForeignToken(HJ_spaced, PJ_p, 1, "EdDSA") }

T_ok == ForeignToken(HJ_canonical, PJ_p, 1, "EdDSA")

Malformed ==
    { <<>>,                                            \* one empty segment
      EnvPayload,                                      \* one segment
      SigningInput(ProtectedToB64(Hdr("EdDSA", K1)), EnvPayload),   \* two
      T_ok \o <<DOT>>,                                 \* four, the last empty
      T_ok \o <<DOT>> \o EnvPayload,                   \* four
      <<DOT>> \o T_ok,                                 \* four, the first empty
      <<DOT, DOT, DOT, DOT>>,                          \* five empty segments
      Compact(<<33>>, EnvPayload, EnvPayload),         \* header not base64url
      Compact(B64Encode(<<LBRACE>>), EnvPayload, EnvPayload),   \* header not JSON
      ForeignToken(HJ_nokid, PJ_p, 1, "EdDSA"),        \* header without a key
      ForeignToken(HJ_canonical, <<LBRACE>>, 1, "EdDSA"),   \* claims not JSON
      Compact(ProtectedToB64(Hdr("EdDSA", K1)), <<33>>,     \* claims not base64url
              B64Encode(SignBytes(1, "EdDSA",
                  SigningInput(ProtectedToB64(Hdr("EdDSA", K1)), <<33>>)))),
      Compact(ProtectedToB64(Hdr("EdDSA", K1)), EnvPayload, <<33>>),   \* signature not base64url
      Compact(ProtectedToB64(Hdr("EdDSA", K1)), EnvPayload, <<>>) }    \* an empty signature

\* the compact strings a caller hands to decode without having called encode
Received == WellSigned \cup Malformed


(***************************************************************************)
(* State.                                                                  *)
(***************************************************************************)
VARIABLES
    pc,         \* where the running call stands
    op,         \* the public operation running last: encode, decode or verify
    enc,        \* the arguments of the encode call that made `wire`, if any
    wire,       \* the compact string: encode's result, decode's argument
    tamper,     \* what happened to `wire` between encode and decode
    resolver,   \* the resolver handed to decode or verify
    jws,        \* the envelope `self` of Jws::verify
    idx,        \* the entry the loop of Jws::verify stands at, from 1
    local,      \* locals of Jws::verify held across the resolver's await
    calls,      \* the identifiers the resolver has been called with, in order
    slog,       \* the calls made on the signer, in order
    work,       \* how many base64 decodings and signature verifications ran
    result,     \* what the running operation returned
    out         \* the Jwt decode returned

vars ==
    <<pc, op, enc, wire, tamper, resolver, jws, idx, local, calls, slog, work, result, out>>

NoEnc == [some |-> FALSE, typ |-> "Jwt", payload |-> NumValue(0),
          signer |-> Signer(0, "EdDSA", <<>>, FALSE, FALSE)]
NoTamper == [kind |-> "none", pos |-> 0, bit |-> 0]
NoJws == Jws(<<>>, <<>>)
NoLocal == [header |-> <<>>, sig |-> <<>>]
Pending == [status |-> "none", kind |-> "", at |-> 0]
Ok == [status |-> "ok", kind |-> "", at |-> 0]
Err(kind, at) == [status |-> "err", kind |-> kind, at |-> at]
NoOut == [some |-> FALSE, header |-> Hdr("EdDSA", <<>>), claims |-> NumValue(0)]

Init ==
    /\ pc = "idle"
    /\ op = "none"
    /\ enc = NoEnc
    /\ wire = <<>>
    /\ tamper = NoTamper
    /\ resolver = "good"
    /\ jws = NoJws
    /\ idx = 0
    /\ local = NoLocal
    /\ calls = <<>>
    /\ slog = <<>>
    /\ work = [b64 |-> 0, verify |-> 0]
    /\ result = Pending
    /\ out = NoOut

(***************************************************************************)
(* encode and Jws::new.                                                    *)
(***************************************************************************)
\* Jws::new up to the first await: signer.verification_method().await?
JwsNew_VerificationMethod(typ, payload, signer) ==
    /\ pc = "idle"
    /\ op' = "encode"
    /\ enc' = [some |-> TRUE, typ |-> typ, payload |-> payload, signer |-> signer]
    /\ slog' = Append(slog, [call |-> "verification_method", msg |-> <<>>])
    /\ IF signer.vm_fails
       THEN /\ pc' = "done"
            /\ result' = Err("SigningError", 0)
       ELSE /\ pc' = "new_sign"
            /\ result' = result
    /\ UNCHANGED <<wire, tamper, resolver, jws, idx, local, calls, work, out>>

\* a mutant of JwsNewEnvelope: the header's key is left to Protected::default()
JwsNewEnvelopeDefaultKey(typ, payload, signer) ==
    LET protected == Protected(signer.alg, typ, KeyDefault, None, None)
        header == ProtectedToB64(protected)
        payload_b64 == B64Encode(PayloadToJson(payload))
        sig == SignBytes(signer.key, signer.alg, SigningInput(header, payload_b64))
    IN Jws(payload_b64, <<Signature(protected, B64Encode(sig))>>)

\* the envelope Jws::new builds from the signer's answers
JwsNewEnvelope(typ, payload, signer) ==
    LET protected == Protected(signer.alg, typ, KeyId(signer.vm), None, None)
        header == ProtectedToB64(protected)
        payload_b64 == B64Encode(PayloadToJson(payload))
        sig == SignBytes(signer.key, signer.alg, SigningInput(header, payload_b64))
    IN Jws(payload_b64, <<Signature(protected, B64Encode(sig))>>)

\* a mutant of CompactOf: the payload segment is left out of the token
CompactOfNoPayload(j) ==
    Compact(ProtectedToB64(j.signatures[1].protected), <<>>, j.signatures[1].signature)

\* encode, after Jws::new: the first signature's header, re-serialized, the
\* payload and the signature
CompactOf(j) ==
    Compact(ProtectedToB64(j.signatures[1].protected), j.payload, j.signatures[1].signature)

\* Jws::new from the header's construction on, and the rest of encode
JwsNew_TrySign ==
    /\ pc = "new_sign"
    /\ LET j == JwsNewEnvelope(enc.typ, enc.payload, enc.signer)
           msg == SigningInput(ProtectedToB64(j.signatures[1].protected), j.payload)
       IN /\ slog' = Append(slog, [call |-> "try_sign", msg |-> msg])
          /\ IF enc.signer.sign_fails
             THEN /\ pc' = "done"
                  /\ result' = Err("SigningError", 0)
                  /\ wire' = wire
                  /\ jws' = jws
             ELSE /\ pc' = "sent"
                  /\ result' = Ok
                  /\ wire' = CompactOf(j)
                  /\ jws' = j
    /\ UNCHANGED <<op, enc, tamper, resolver, idx, local, calls, work, out>>

(***************************************************************************)
(* Between encode and decode.                                              *)
(***************************************************************************)
\* the positions of the payload segment of a compact token
PayloadPositions(w) ==
    LET parts == SplitDots(w) IN
    IF Len(parts) # 3 THEN {}
    ELSE (Len(parts[1]) + 2)..(Len(parts[1]) + 1 + Len(parts[2]))

\* one bit of one character of the payload segment is inverted; the string
\* stays a Rust str, so the top bit of a byte is never set
Transit_FlipBit ==
    /\ pc = "sent"
    /\ tamper.kind = "none"
    /\ enc.some
    /\ \E i \in PayloadPositions(wire), b \in 0..6 :
           /\ wire' = [wire EXCEPT ![i] = FlipBit(wire[i], b)]
           /\ tamper' = [kind |-> "flip", pos |-> i, bit |-> b]
    /\ UNCHANGED <<pc, op, enc, resolver, jws, idx, local, calls, slog, work, result, out>>

\* a caller holds a compact string that did not come from encode
Receive(w) ==
    /\ pc = "idle"
    /\ wire' = w
    /\ pc' = "sent"
    /\ UNCHANGED <<op, enc, tamper, resolver, jws, idx, local, calls, slog, work, result, out>>

(***************************************************************************)
(* Jws::from_str, Jws::verify, decode.                                     *)
(***************************************************************************)
NoParse == [ok |-> FALSE, jws |-> NoJws, b64 |-> 0]

\* from_str, lines 183-192: the header is deserialized, the envelope is built
JwsOfProtected(parts, protected) ==
    IF ~protected.ok THEN [NoParse EXCEPT !.b64 = 1]
    ELSE [ok |-> TRUE,
          jws |-> Jws(parts[2], <<Signature(protected.protected, parts[3])>>),
          b64 |-> 1]

\* from_str, lines 181-184: the header segment is base64url-decoded first
JwsOfHeader(parts, decoded) ==
    IF ~decoded.ok THEN [NoParse EXCEPT !.b64 = 1]
    ELSE JwsOfProtected(parts, ProtectedFromJson(decoded.bytes))

JwsOfParts(parts) == JwsOfHeader(parts, B64Decode(parts[1]))

\* a mutant of JwsFromStr: segments after the third are ignored
JwsFromStrAtLeast3(s) ==
    IF Len(SplitDots(s)) < 3 THEN NoParse
    ELSE JwsOfParts(SplitDots(s))

\* Jws::from_str; b64 counts the base64 decodings it ran
JwsFromStr(s) ==
    IF Len(SplitDots(s)) # 3 THEN NoParse
    ELSE JwsOfParts(SplitDots(s))

\* decode, line 61: compact_jws.parse()?
Decode_Parsed(parsed) ==
    /\ work' = [work EXCEPT !.b64 = @ + parsed.b64]
    /\ jws' = parsed.jws
    /\ IF parsed.ok
       THEN /\ idx' = 1
            /\ pc' = "verify"
            /\ result' = Pending
       ELSE /\ idx' = idx
            /\ pc' = "done"
            /\ result' = Err("FormatError", 0)

Decode_Parse(r) ==
    /\ pc = "sent"
    /\ op' = "decode"
    /\ resolver' = r
    /\ Decode_Parsed(JwsFromStr(wire))
    /\ UNCHANGED <<enc, wire, tamper, local, calls, slog, out>>

\* a caller calls Jws::verify on an envelope it holds, with the resolver
\* that knows the keys
Verify_Call(j) ==
    /\ pc = "idle"
    /\ op' = "verify"
    /\ resolver' = "good"
    /\ jws' = j
    /\ idx' = 1
    /\ pc' = "verify"
    /\ UNCHANGED <<enc, wire, tamper, local, calls, slog, work, result, out>>

\* a mutant of LoopEntries: only the first entry is looked at
LoopEntriesFirstOnly(j) == IF j.signatures = <<>> THEN <<>> ELSE <<j.signatures[1]>>

\* for signature in &self.signatures
LoopEntries(j) == j.signatures

\* Jws::verify, one turn of the loop up to the await: lines 153-162
JwsVerify_Resolve ==
    /\ pc = "verify"
    /\ idx <= Len(LoopEntries(jws))
    /\ LET signature == LoopEntries(jws)[idx]
           kid == ProtectedKid(signature.protected)
       IN IF ~kid.some
          THEN /\ pc' = "done"
               /\ result' = Err("MissingKeyIdentifier", idx)
               /\ UNCHANGED <<local, calls, work>>
          ELSE LET header == ProtectedToB64(signature.protected)
                   sig == B64Decode(signature.signature)
               IN /\ work' = [work EXCEPT !.b64 = @ + 1]
                  /\ IF ~sig.ok
                     THEN /\ pc' = "done"
                          /\ result' = Err("FormatError", idx)
                          /\ UNCHANGED <<local, calls>>
                     ELSE /\ calls' = Append(calls, kid.v)
                          /\ local' = [header |-> header, sig |-> sig.bytes]
                          /\ pc' = "resolving"
                          /\ result' = result
    /\ UNCHANGED <<op, enc, wire, tamper, resolver, jws, idx, slog, out>>

\* Jws::verify, the rest of the turn: the resolver's answer and line 163
JwsVerify_Check ==
    /\ pc = "resolving"
    /\ LET answer == Resolve(resolver, calls[Len(calls)]) IN
       IF ~answer.ok
       THEN /\ pc' = "done"
            /\ result' = Err("KeyResolutionError", idx)
            /\ UNCHANGED <<idx, work>>
       ELSE LET v == PublicKeyJwkVerify(answer.jwk,
                                        SigningInput(local.header, jws.payload),
                                        local.sig)
            IN /\ work' = [work EXCEPT !.verify = @ + 1]
               /\ IF v = Verified
                  THEN /\ idx' = idx + 1
                       /\ pc' = "verify"
                       /\ result' = result
                  ELSE /\ pc' = "done"
                       /\ result' = Err(v, idx)
                       /\ idx' = idx
    /\ local' = NoLocal
    /\ UNCHANGED <<op, enc, wire, tamper, resolver, jws, calls, slog, out>>

\* Jws::verify, line 166: the loop is over, Ok(())
JwsVerify_Return ==
    /\ pc = "verify"
    /\ idx > Len(LoopEntries(jws))
    /\ IF op = "decode"
       THEN /\ pc' = "claims"
            /\ result' = result
       ELSE /\ pc' = "done"
            /\ result' = Ok
    /\ UNCHANGED <<op, enc, wire, tamper, resolver, jws, idx, local, calls, slog, work, out>>

\* decode, lines 64-76
Decode_Claims ==
    /\ pc = "claims"
    /\ pc' = "done"
    /\ work' = [work EXCEPT !.b64 = @ + 1]
    /\ LET claims == B64Decode(jws.payload)
           value == PayloadFromJson(claims.bytes)
       IN IF ~claims.ok \/ ~value.ok
          THEN /\ result' = Err("FormatError", 0)
               /\ out' = out
          ELSE IF Len(jws.signatures) = 0
          THEN /\ result' = Err("NoSignature", 0)
               /\ out' = out
          ELSE /\ result' = Ok
               /\ out' = [some |-> TRUE, header |-> jws.signatures[1].protected,
                          claims |-> value.value]
    /\ UNCHANGED <<op, enc, wire, tamper, resolver, jws, idx, local, calls, slog>>

Next ==
    \/ \E typ \in Types, payload \in Payloads, signer \in Signers :
           JwsNew_VerificationMethod(typ, payload, signer)
    \/ JwsNew_TrySign
    \/ Transit_FlipBit
    \/ \E w \in Received : Receive(w)
    \/ \E r \in Resolvers : Decode_Parse(r)
    \/ \E j \in Envelopes : Verify_Call(j)
    \/ JwsVerify_Resolve
    \/ JwsVerify_Check
    \/ JwsVerify_Return
    \/ Decode_Claims

Spec == Init /\ [][Next]_vars

(***************************************************************************)
(* Properties.                                                             *)
(***************************************************************************)
\* the running operation has returned
Returned == pc = "done" /\ op \in {"decode", "verify"}

\* Jws::verify has returned Ok(())
VerifyOk ==
    \/ op = "verify" /\ pc = "done" /\ result = Ok
    \/ op = "decode" /\ pc = "claims"
    \/ op = "decode" /\ pc = "done" /\ result.at = 0 /\ Len(jws.signatures) > 0

\* sig is a signature the holder of the key pair of jwk made over msg
Genuine(jwk, msg, sig) ==
    /\ jwk.x # 0
    /\ IF jwk.crv = "Ed25519"
       THEN sig = SignBytes(jwk.x, "EdDSA", msg)
       ELSE /\ jwk.y = jwk.x
            /\ \/ sig = SignBytes(jwk.x, "ES256K", msg)
               \/ sig = <<jwk.x, SCHEME_ES256K_HIGH_S>> \o msg

\* s is unpadded base64url: alphabet characters, a possible length, no stray
\* trailing bits
IsBase64Url(s) ==
    /\ \A i \in 1..Len(s) : B64Val(s[i]) >= 0
    /\ Len(s) % 4 # 1
    /\ Len(s) % 4 = 2 => B64Val(s[Len(s)]) % 16 = 0
    /\ Len(s) % 4 = 3 => B64Val(s[Len(s)]) % 4 = 0

\* C1 (round trip): decoding what encode returned, with a resolver that maps
\* the signer's verification method to the signer's public key, succeeds and
\* returns the payload that was encoded, under a header with the type that
\* was encoded and the signer's verification method as its key.
C1_RoundTrip ==
    (/\ Returned /\ op = "decode"
     /\ enc.some /\ tamper.kind = "none"
     /\ Matching(resolver, enc.signer))
    => /\ result = Ok
       /\ out.some
       /\ out.claims = enc.payload
       /\ out.header.typ = enc.typ
       /\ out.header.alg = enc.signer.alg
       /\ out.header.key = KeyId(enc.signer.vm)

\* a round trip of a string payload under the proof type with the ES256K signer
C1_Witness ==
    /\ Returned /\ op = "decode" /\ enc.some /\ tamper.kind = "none"
    /\ Matching(resolver, enc.signer)
    /\ enc.signer.alg = "ES256K"
    /\ enc.typ = "Openid4VciProofJwt"
    /\ enc.payload = StrValue(<<112>>)
    /\ out.some /\ out.claims = StrValue(<<112>>)

\* the first entry's header has an empty identifier or an embedded key
FirstKeyMissing ==
    /\ Len(jws.signatures) > 0
    /\ \/ jws.signatures[1].protected.key.tag = "Jwk"
       \/ jws.signatures[1].protected.key = KeyId(<<>>)

\* C2 (missing key identifier): when the first entry's header has an empty
\* identifier or an embedded key, the resolver is never called and
\* Jws::verify returns the missing-key-identifier error.
C2_MissingKidShortCircuit ==
    (op \in {"decode", "verify"} /\ FirstKeyMissing)
    => /\ calls = <<>>
       /\ pc # "claims"
       /\ pc = "done" => result = Err("MissingKeyIdentifier", 1)

\* the identifier entry i names, and the signing input and signature bytes
\* Jws::verify is to check for it
KidOf(i) == jws.signatures[i].protected.key.kid
HasKid(i) == jws.signatures[i].protected.key.tag = "KeyId"
InputOf(i) == SigningInput(ProtectedToB64(jws.signatures[i].protected), jws.payload)
SigOf(i) == B64Bytes(jws.signatures[i].signature)
Decodable(i) == IsBase64Url(jws.signatures[i].signature)

\* the compact string in flight is H.P.S with H a header this implementation
\* can read and S a signature over the bytes H.P as transmitted, made by the
\* key the resolver answers for the header's identifier
ValidAsTransmitted ==
    LET parts == SplitDots(wire) IN
    /\ Len(parts) = 3
    /\ IsBase64Url(parts[1])
    /\ ProtectedFromJson(B64Bytes(parts[1])).ok
    /\ IsBase64Url(parts[3])
    /\ LET kid == ProtectedFromJson(B64Bytes(parts[1])).protected.key.kid IN
       /\ Resolve(resolver, kid).ok
       /\ Genuine(Resolve(resolver, kid).jwk, SigningInput(parts[1], parts[2]),
                  B64Bytes(parts[3]))

\* C3 (header bytes): decode verifies the signature over the header segment
\* as transmitted, so a token whose signature is valid over H.P as
\* transmitted passes verification, whatever the text of its header.
C3_HeaderAsTransmitted ==
    (Returned /\ op = "decode" /\ ValidAsTransmitted) => result.at = 0

\* entry i reached the resolver, which answered a key whose curve is not the
\* one of the entry's declared algorithm
CurveMismatch(i) ==
    /\ i <= Len(calls)
    /\ Resolve(resolver, calls[i]).ok
    /\ Resolve(resolver, calls[i]).jwk.crv # CurveOf(jws.signatures[i].protected.alg)

\* C4 (algorithm and curve): an entry whose declared algorithm disagrees with
\* the curve of the resolved key is never passed, and Jws::verify fails on it
\* with the unsupported-algorithm error.
C4_AlgCurveConsistency ==
    \A i \in 1..Len(jws.signatures) :
        CurveMismatch(i) =>
            /\ ~(i < idx)
            /\ ~VerifyOk
            /\ (pc = "done" /\ result.at = i) => result.kind = "UnsupportedAlgorithm"

\* C5 (unanimous validity): when Jws::verify returns Ok, the resolver was
\* called once for every entry, in order, with the entry's identifier, and
\* every entry's signature is a signature of the resolved key over the
\* entry's header, re-encoded, a dot and the payload.
C5_UnanimousValidity ==
    VerifyOk =>
        /\ Len(calls) = Len(jws.signatures)
        /\ \A i \in 1..Len(jws.signatures) :
               /\ HasKid(i)
               /\ calls[i] = KidOf(i)
               /\ Resolve(resolver, KidOf(i)).ok
               /\ Decodable(i)
               /\ Genuine(Resolve(resolver, KidOf(i)).jwk, InputOf(i), SigOf(i))

\* Jws::verify returned Ok for an envelope of three entries
C5_Witness ==
    /\ op = "verify" /\ pc = "done" /\ result = Ok
    /\ Len(jws.signatures) = 3
    /\ jws.signatures[2] # jws.signatures[1]

\* entry i is sound: an identifier the resolver knows and a signature of the
\* resolved key over the entry's signing input
Sound(i) ==
    /\ HasKid(i)
    /\ Resolve(resolver, KidOf(i)).ok
    /\ Decodable(i)
    /\ Genuine(Resolve(resolver, KidOf(i)).jwk, InputOf(i), SigOf(i))

\* entry i has an identifier the resolver answers with a usable key, and
\* signature bytes that are not a signature of that key over the entry's
\* signing input
Forged(i) ==
    /\ HasKid(i)
    /\ Resolve(resolver, KidOf(i)).ok
    /\ LET jwk == Resolve(resolver, KidOf(i)).jwk IN
       jwk.x # 0 /\ (jwk.crv = "Es256K" => jwk.y = jwk.x)
    /\ Decodable(i)
    /\ Len(SigOf(i)) >= 2
    /\ ~Genuine(Resolve(resolver, KidOf(i)).jwk, InputOf(i), SigOf(i))

FirstForged(k) == Forged(k) /\ \A i \in 1..(k - 1) : Sound(i)

\* C6 (fail fast): when entry k is the first with an invalid signature,
\* Jws::verify returns the signature-invalid error for entry k, the resolver
\* has been called exactly k times, for entries 1..k in order.
C6_FailFast ==
    Returned =>
        \A k \in 1..Len(jws.signatures) :
            FirstForged(k) =>
                /\ result = Err("SignatureInvalid", k)
                /\ Len(calls) = k
                /\ \A i \in 1..k : calls[i] = KidOf(i)

\* [s1, s2, s3] with s2 invalid: two calls, none for s3
C6_Witness ==
    /\ Returned /\ op = "verify"
    /\ Len(jws.signatures) = 3
    /\ FirstForged(2)
    /\ result = Err("SignatureInvalid", 2)
    /\ calls = <<KidOf(1), KidOf(2)>>

\* C7 (non-empty envelope): an envelope without signature entries is never
\* valid: Jws::verify does not return Ok for it and decode returns no claims.
C7_NonEmptyEnvelope ==
    (op \in {"decode", "verify"} /\ pc \in {"claims", "done"} /\ Len(jws.signatures) = 0)
    => /\ pc = "done"
       /\ result.status = "err"
       /\ ~out.some

\* decode has returned for a token of encode with one bit of its payload
\* segment inverted, under a resolver that matches the signer
Tampered ==
    /\ Returned /\ op = "decode"
    /\ enc.some /\ tamper.kind = "flip"
    /\ Matching(resolver, enc.signer)

\* C8 as stated (tamper sensitivity): decode of a token with one bit of its
\* payload segment inverted fails with the signature-invalid error.
C8_TamperSignatureInvalid ==
    (Tampered /\ enc.signer.vm # <<>>)
    => result.status = "err" /\ result.kind = "SignatureInvalid"

\* C8 as amended: decode of a token with one bit of its payload segment
\* inverted fails; with the format error when the inverted bit makes the
\* character a dot, with the signature-invalid error otherwise.
C8_TamperRejected ==
    Tampered =>
        /\ ~out.some
        /\ IF wire[tamper.pos] = DOT
           THEN result = Err("FormatError", 0) /\ calls = <<>>
           ELSE result = Err("SignatureInvalid", 1)

\* a tampered token was refused for its signature
C8_Witness ==
    /\ Tampered
    /\ wire[tamper.pos] # DOT
    /\ B64Val(wire[tamper.pos]) >= 0
    /\ result = Err("SignatureInvalid", 1)

\* C9 (segment count): a string that does not have exactly three segments is
\* refused by decode with the format error, before the resolver is called
\* and before any base64 decoding or signature verification.
C9_SegmentCount ==
    (op = "decode" /\ Len(SplitDots(wire)) # 3)
    => /\ pc = "done"
       /\ result = Err("FormatError", 0)
       /\ calls = <<>>
       /\ work = [b64 |-> 0, verify |-> 0]
       /\ ~out.some

\* a token followed by a dot and one more segment was refused
C9_Witness ==
    /\ op = "decode" /\ pc = "done"
    /\ Len(SplitDots(wire)) = 4
    /\ JwsFromStr(SubSeq(wire, 1, Len(T_ok))).ok
    /\ result = Err("FormatError", 0)

\* Jws::verify failed at entry k, for another reason than a missing identifier
FailedAt(k) ==
    /\ Returned
    /\ result.status = "err" /\ result.at = k
    /\ result.kind # "MissingKeyIdentifier"

\* the resolver was called exactly for entries 1..n, in order
CalledFor(n) == Len(calls) = n /\ \A i \in 1..n : calls[i] = KidOf(i)

SignHeader == Protected(enc.signer.alg, enc.typ, KeyId(enc.signer.vm), None, None)
SignInput ==
    B64Encode(ProtectedToJson(SignHeader)) \o <<DOT>> \o B64Encode(PayloadToJson(enc.payload))

\* Jws::new has returned an error, without an envelope or a token
SignFailed ==
    /\ pc = "done" /\ op = "encode"
    /\ result = Err("SigningError", 0)
    /\ jws = NoJws /\ wire = <<>>

\* C11 (sign pipeline): in every run of Jws::new the signer is asked for its
\* verification method exactly once, first; try_sign is called at most once,
\* only when verification_method succeeded, over the header with the
\* signer's algorithm and KeyId(verification method), base64url, a dot and
\* the payload, base64url; a failure of either call is returned at once,
\* without another call on the signer and without an envelope; on success
\* the envelope has exactly one signature entry.
C11_SignPipeline ==
    enc.some =>
        /\ Len(slog) \in {1, 2}
        /\ slog[1] = [call |-> "verification_method", msg |-> <<>>]
        /\ Len(slog) = 2 =>
               /\ ~enc.signer.vm_fails
               /\ slog[2] = [call |-> "try_sign", msg |-> SignInput]
        /\ enc.signer.vm_fails => Len(slog) = 1 /\ SignFailed
        /\ (Len(slog) = 2 /\ enc.signer.sign_fails) => SignFailed
        /\ (Len(slog) = 1 /\ ~enc.signer.vm_fails) => pc = "new_sign" /\ jws = NoJws
        /\ (pc = "sent" /\ op = "encode") =>
               /\ Len(slog) = 2 /\ result = Ok
               /\ Len(jws.signatures) = 1
               /\ jws.signatures[1].protected = SignHeader
               /\ jws.payload = B64Encode(PayloadToJson(enc.payload))
               /\ B64Bytes(jws.signatures[1].signature)
                      = SignBytes(enc.signer.key, enc.signer.alg, SignInput)

\* encode returned a token of the ES256K signer, after both calls
C11_Witness ==
    /\ pc = "sent" /\ op = "encode" /\ result = Ok
    /\ enc.signer.alg = "ES256K" /\ enc.typ = "OauthAuthzReqJwt"
    /\ Len(slog) = 2 /\ slog[2].call = "try_sign" /\ slog[2].msg = SignInput
    /\ Len(jws.signatures) = 1

====
